---- MODULE Spec2Model ----
(***************************************************************************)
(* Model of protoc-gen-atlas-query-perm, src/plugin/plugin.go.             *)
(*                                                                         *)
(* The file holds two generator plugins:                                   *)
(*   - PermPlugin (lines 1-269): getDenyOperations, the deny-only variant; *)
(*   - QueryValidatePlugin (lines 271-1043): the nested resolvers          *)
(*     getFilteringDataAux / getSortingDataAux / getFieldSelectionDataAux, *)
(*     the allow/deny resolver getDenyRules and the per-endpoint           *)
(*     aggregation genFiltering / genSorting / genFieldSelection.          *)
(*                                                                         *)
(* p.Fail of the generator prints the message and exits the process: it is *)
(* modelled as an error result that stops the resolution where it occurs.  *)
(***************************************************************************)
EXTENDS Integers, Sequences, FiniteSets, TLC

VARIABLES
    mode,        \* entry point exercised: "generate", "rules" or "perm"
    schema,      \* the descriptors: message name -> options and fields
    declared,    \* the descriptors as the generator received them
    alwaysNest,  \* QueryValidatePlugin.alwaysNest
    maxNesting,  \* QueryValidatePlugin.maxNesting
    pc,          \* position inside Generate, or "failed" after p.Fail
    err,         \* the failure p.Fail reported, "none" otherwise
    tables,      \* the three generated tables of the current file
    prev,        \* the tables generated by the previous Generate call
    round,       \* number of the current Generate call
    calls,       \* per-field record of the last resolver run
    ruleIn,      \* arguments of a getDenyRules call
    ruleOut,     \* its result
    permIn,      \* arguments of a getDenyOperations call
    permOut      \* the results of its calls so far

vars == <<mode, schema, declared, alwaysNest, maxNesting, pc, err, tables,
          prev, round, calls, ruleIn, ruleOut, permIn, permOut>>

-----------------------------------------------------------------------------
(* Bounds of the model *)

\* longest allow list plus deny list handed to the allow/deny resolvers
MaxOps == 2
\* largest nesting depth limit (generator parameter or message override)
MaxDepth == 3
\* number of Generate calls over the same descriptors
MaxRounds == 2

-----------------------------------------------------------------------------
(* Small helpers *)

InSeq(x, s) == \E i \in 1..Len(s) : s[i] = x

Range(s) == {s[i] : i \in 1..Len(s)}

SeqsUpTo(S, n) == UNION {[1..k -> S] : k \in 0..n}

\* all sequences that enumerate S without repetition
RECURSIVE Perms(_)
Perms(S) ==
    IF S = {} THEN {<<>>}
    ELSE UNION {{<<x>> \o p : p \in Perms(S \ {x})} : x \in S}

-----------------------------------------------------------------------------
(* options.QueryValidate_FilterOperator and options.QueryValidate_ValueType *)

FilterOperators == {"EQ", "MATCH", "GT", "GE", "LT", "LE", "ALL", "IEQ", "IN"}

ValueTypes == {"DEFAULT", "STRING", "NUMBER", "BOOL"}

\* an eligibility table that lacks IN for numbers
SupportedOpsMissingIn(filterType) ==
    IF filterType = "NUMBER" THEN <<"EQ", "GT", "GE", "LT", "LE">>
    ELSE IF filterType = "STRING"
        THEN <<"EQ", "MATCH", "GT", "GE", "LT", "LE", "IN", "IEQ">>
    ELSE IF filterType = "BOOL" THEN <<"EQ", "IN">>
    ELSE <<>>

\* supportedOps of getDenyRules, in the order the code lists them
SupportedOps(filterType) ==
    IF filterType = "NUMBER" THEN <<"EQ", "GT", "GE", "LT", "LE", "IN">>
    ELSE IF filterType = "STRING"
        THEN <<"EQ", "MATCH", "GT", "GE", "LT", "LE", "IN", "IEQ">>
    ELSE IF filterType = "BOOL" THEN <<"EQ", "IN">>
    ELSE <<>>

\* a resolver that never rejects an operator
UnsupportedListedNoCheck(ops, supported) == FALSE

\* the check loop of getDenyRules: a listed operator that is neither
\* supported nor ALL makes p.Fail fire
UnsupportedListed(ops, supported) ==
    \E i \in 1..Len(ops) : ~InSeq(ops[i], supported) /\ ops[i] # "ALL"

\* inner loop of the allow branch for one supported operator op:
\* "all" when ALL is met before op, "found" when op is met first, else "none"
RECURSIVE ScanAllowed(_, _, _)
ScanAllowed(op, ops, j) ==
    IF j > Len(ops) THEN "none"
    ELSE IF ops[j] = "ALL" THEN "all"
    ELSE IF ops[j] = op THEN "found"
    ELSE ScanAllowed(op, ops, j + 1)

\* the OUTER loop of the allow branch: res grows with the supported operators
\* that are not allowed, and is dropped as soon as ALL is met
RECURSIVE DenyFromAllowLoop(_, _, _, _)
DenyFromAllowLoop(supported, ops, i, res) ==
    IF i > Len(supported) THEN res
    ELSE LET hit == ScanAllowed(supported[i], ops, 1)
         IN  IF hit = "all" THEN <<>>
             ELSE IF hit = "found"
                 THEN DenyFromAllowLoop(supported, ops, i + 1, res)
             ELSE DenyFromAllowLoop(supported, ops, i + 1,
                                    Append(res, supported[i]))

\* a resolver that forgets the ALL sentinel of the allow list
RECURSIVE DenyFromAllowNoAll(_, _)
DenyFromAllowNoAll(supported, ops) ==
    IF supported = <<>> THEN <<>>
    ELSE IF InSeq(Head(supported), ops)
        THEN DenyFromAllowNoAll(Tail(supported), ops)
    ELSE <<Head(supported)>> \o DenyFromAllowNoAll(Tail(supported), ops)

DenyFromAllow(supported, ops) == DenyFromAllowLoop(supported, ops, 1, <<>>)

\* a resolver that records the deny list as written
DenyFromDenyVerbatim(ops) == ops

\* the deny branch: the list as written, or the single ALL when it lists ALL
DenyFromDeny(ops) == IF InSeq("ALL", ops) THEN <<"ALL">> ELSE ops

\* getDenyRules(fieldName, opts, filterType): [res, err]
getDenyRules(opts, filterType) ==
    LET opsAllowed == opts.allow
        opsDenied  == opts.deny
        supported  == SupportedOps(filterType)
        ops        == IF Len(opsDenied) > 0 THEN opsDenied ELSE opsAllowed
    IN  IF Len(opsAllowed) > 0 /\ Len(opsDenied) > 0
            THEN [res |-> <<>>, err |-> "conflict"]
        ELSE IF Len(opsAllowed) = 0 /\ Len(opsDenied) = 0
            THEN [res |-> <<>>, err |-> "none"]
        ELSE IF UnsupportedListed(ops, supported)
            THEN [res |-> <<>>, err |-> "unsupportedOperator"]
        ELSE IF Len(opsAllowed) > 0
            THEN [res |-> DenyFromAllow(supported, ops), err |-> "none"]
        ELSE [res |-> DenyFromDeny(ops), err |-> "none"]


-----------------------------------------------------------------------------
(* Descriptors.  A field is [name, type, typeName, repeated, opts]; opts is  *)
(* the field's options.QueryValidate extension, NilOpts when it has none.    *)
(* The getters of a nil extension return the zero values NilOpts holds.      *)

protoTypeTimestamp   == ".google.protobuf.Timestamp"
protoTypeUUID        == ".gorm.types.UUID"
protoTypeUUIDValue   == ".gorm.types.UUIDValue"
protoTypeResource    == ".atlas.rpc.Identifier"
protoTypeInet        == ".gorm.types.InetValue"
protoTypeJSONValue   == ".gorm.types.JSONValue"
protoTypeStringValue == ".google.protobuf.StringValue"
protoTypeDoubleValue == ".google.protobuf.DoubleValue"
protoTypeFloatValue  == ".google.protobuf.FloatValue"
protoTypeInt32Value  == ".google.protobuf.Int32Value"
protoTypeInt64Value  == ".google.protobuf.Int64Value"
protoTypeUInt32Value == ".google.protobuf.UInt32Value"
protoTypeUInt64Value == ".google.protobuf.UInt64Value"
protoTypeBoolValue   == ".google.protobuf.BoolValue"

filtering      == ".infoblox.api.Filtering"
sorting        == ".infoblox.api.Sorting"
fieldSelection == ".infoblox.api.FieldSelection"

NilOpts ==
    [present |-> FALSE, valueType |-> "DEFAULT", allow |-> <<>>, deny |-> <<>>,
     sorting |-> "nil", fieldSelection |-> "nil", enableNested |-> FALSE,
     nestedFields |-> <<>>, url |-> ""]

NilMessageOpts ==
    [present |-> FALSE, depthLimit |-> 0, enableNested |-> FALSE,
     validate |-> <<>>]

Field(name, type, typeName, repeated, opts) ==
    [name |-> name, type |-> type, typeName |-> typeName,
     repeated |-> repeated, opts |-> opts]

\* getValueType(field): the Type Classifier
getValueType(field) ==
    IF field.type \in {"TYPE_STRING", "TYPE_ENUM"} THEN "STRING"
    ELSE IF field.type = "TYPE_BOOL" THEN "BOOL"
    ELSE IF field.type \in {"TYPE_DOUBLE", "TYPE_FLOAT", "TYPE_INT32",
                            "TYPE_INT64", "TYPE_SINT32", "TYPE_SINT64",
                            "TYPE_UINT32", "TYPE_UINT64"} THEN "NUMBER"
    ELSE IF field.type = "TYPE_MESSAGE"
        THEN IF field.typeName \in {protoTypeResource, protoTypeTimestamp,
                                    protoTypeUUID, protoTypeUUIDValue,
                                    protoTypeInet, protoTypeStringValue,
                                    protoTypeJSONValue} THEN "STRING"
             ELSE IF field.typeName \in {protoTypeDoubleValue,
                                         protoTypeFloatValue,
                                         protoTypeInt32Value,
                                         protoTypeInt64Value,
                                         protoTypeUInt32Value,
                                         protoTypeUInt64Value} THEN "NUMBER"
             ELSE IF field.typeName = protoTypeBoolValue THEN "BOOL"
             ELSE "DEFAULT"
    ELSE "DEFAULT"

\* getQueryValidationOptions(field): the extension, after the defaulting the
\* function writes into it when it names a value type url
getQueryValidationOptions(o) ==
    IF o.present /\ o.url # ""
        THEN [o EXCEPT
                !.sorting = IF @ = "nil" THEN "disabled" ELSE @,
                !.fieldSelection = IF @ = "nil" THEN "disabled" ELSE @]
    ELSE o

\* a getter that leaves the value of a synthetic entry as it is written
DefaultedEntryValueAsWritten(o) == o

\* the defaulting getMessageQueryValidationOptions writes into the value of
\* one synthetic entry
DefaultedEntryValue(o) ==
    [o EXCEPT
        !.enableNested = IF Len(o.nestedFields) > 0 THEN TRUE ELSE @,
        !.sorting = IF @ = "nil" THEN "disabled" ELSE @,
        !.fieldSelection = IF @ = "nil" THEN "disabled" ELSE @]

\* getMessageOptions(msg)
getMessageOptions(m) == schema[m].opts

\* getMessageQueryValidationOptions(msg): [entries, err]
getMessageQueryValidationOptions(m) ==
    LET opts == getMessageOptions(m)
        v    == opts.validate
    IN  IF ~opts.present THEN [entries |-> <<>>, err |-> "none"]
        ELSE IF \E i \in 1..Len(v) : v[i].name = "" \/ ~v[i].value.present
            THEN [entries |-> <<>>, err |-> "emptySynthetic"]
        ELSE [entries |-> [i \in 1..Len(v) |->
                            [name |-> v[i].name,
                             value |-> DefaultedEntryValue(v[i].value)]],
              err |-> "none"]

\* syntheticField(name, o): [nil, err, field]
syntheticField(name, o) ==
    IF o.url = ""
        THEN [nil |-> TRUE, err |-> "none",
              field |-> Field(name, "", "", FALSE, o)]
    ELSE IF o.url \notin DOMAIN schema
        THEN [nil |-> TRUE, err |-> "notFound",
              field |-> Field(name, "", "", FALSE, o)]
    ELSE [nil |-> FALSE, err |-> "none",
          field |-> Field(name, "TYPE_MESSAGE", o.url, FALSE, o)]

\* allowNested(msgDesc, fieldOpts)
allowNested(m, fieldOpts) ==
    \/ alwaysNest
    \/ getMessageOptions(m).enableNested
    \/ fieldOpts.enableNested
    \/ Len(fieldOpts.nestedFields) > 0

\* getNestDepth(msg)
getNestDepth(m) ==
    IF getMessageOptions(m).present /\ getMessageOptions(m).depthLimit # 0
        THEN getMessageOptions(m).depthLimit
    ELSE maxNesting

-----------------------------------------------------------------------------
(* Results of the resolvers.  A path is the sequence of the names joined by *)
(* "." in the generated key; the ".*" suffix of a JSONValue field is the    *)
(* final segment "*".  A resolver returns                                   *)
(*   data    - the entries in the order the code appends them               *)
(*   err     - "none", or the failure that stopped it                       *)
(*   calls   - one record per entry or field it processed                   *)
(*   touched - the messages whose options it read (and defaulted)           *)

Run(data, e, log, touched) ==
    [data |-> data, err |-> e, calls |-> log, touched |-> touched]

Entry(path, valueType, deny) ==
    [fieldName |-> path, valueType |-> valueType, deny |-> deny]

Call(kind, m, b, origin, decl, field, out, e) ==
    [kind |-> kind, msg |-> m, budget |-> b, origin |-> origin, decl |-> decl,
     field |-> field, out |-> out, err |-> e]

\* fieldName + "." + v.fieldName for every v
Reparent(name, data) ==
    [i \in 1..Len(data) |-> [data[i] EXCEPT !.fieldName = <<name>> \o @]]

ReparentPaths(name, paths) == [i \in 1..Len(paths) |-> <<name>> \o paths[i]]

\* the descriptors syntheticField builds for the entries that name a url
RECURSIVE SyntheticFields(_)
SyntheticFields(entries) ==
    IF entries = <<>> THEN <<>>
    ELSE LET e == Head(entries)
         IN  (IF e.value.url = "" THEN <<>>
              ELSE <<syntheticField(e.name, e.value).field>>)
             \o SyntheticFields(Tail(entries))

\* the fields a resolver loops over: the synthetic ones first, then the
\* message's own, each tagged with where it comes from
FieldsOf(m, entries) ==
    LET syn == SyntheticFields(entries)
        own == schema[m].fields
    IN  [i \in 1..Len(syn) |-> [origin |-> "synthetic", decl |-> syn[i]]]
        \o [i \in 1..Len(own) |-> [origin |-> "field", decl |-> own[i]]]

DenyAll(path) == Entry(path, "DEFAULT", <<"ALL">>)

\* field = sfield when syntheticField returns one
SubstituteSynthetic(decl, sf) ==
    [err |-> sf.err, field |-> IF sf.nil THEN decl ELSE sf.field]

\* opts = getQueryValidationOptions(field) of the field worked on
WithOptions(s) ==
    [err |-> s.err, field |-> s.field,
     opts |-> getQueryValidationOptions(s.field.opts)]

\* the head of a loop iteration, shared by the three resolvers: the field
\* the iteration works on and its options, [err, field, opts]
LoopField(decl) ==
    WithOptions(SubstituteSynthetic(decl,
        syntheticField(decl.name, getQueryValidationOptions(decl.opts))))

\* the iteration appended out
One(kind, m, b, origin, decl, field, out) ==
    Run(out, "none", {Call(kind, m, b, origin, decl, field, out, "none")}, {})

\* p.Fail fired in the iteration
Failed(kind, m, b, origin, decl, field, e) ==
    Run(<<>>, e, {Call(kind, m, b, origin, decl, field, <<>>, e)}, {})

\* the iteration recursed into the field's message: nested is what the
\* recursive call returned and out what the iteration appended from it
Descend(kind, m, b, origin, decl, field, nested, out) ==
    IF nested.err # "none"
        THEN Run(<<>>, nested.err,
                 nested.calls
                   \cup {Call(kind, m, b, origin, decl, field, <<>>, nested.err)},
                 nested.touched)
    ELSE Run(out, "none",
             nested.calls
               \cup {Call(kind, m, b, origin, decl, field, out, "none")},
             nested.touched)

\* the nested calls the stack of the generator process can hold: a recursion
\* that goes deeper ends the process with the runtime's stack overflow error
StackLimit == MaxDepth + 2

\* the recursive call with budget b - 1 is one the stack cannot hold; a
\* budget that started below 1 never meets the maxNesting == 1 test and
\* keeps decreasing
Overflows(b) == b - 1 < 0 - StackLimit

\* data = append(data, ...) of one iteration f onto what the loop has so far
Appended(acc, f) ==
    Run(acc.data \o f.data, f.err, acc.calls \cup f.calls,
        acc.touched \cup f.touched)

-----------------------------------------------------------------------------
(* getFilteringDataAux *)

\* one synthetic entry without url: its own entry, from getDenyRules
FilteringEntry(m, b, acc, name, pf, valueType, dr) ==
    IF dr.err # "none"
        THEN Run(acc.data, dr.err,
                 acc.calls
                   \cup {Call("filtering", m, b, "entry", pf, pf, <<>>, dr.err)},
                 acc.touched)
    ELSE Appended(acc, One("filtering", m, b, "entry", pf, pf,
                           <<Entry(<<name>>, valueType, dr.res)>>))

\* the branch of the first loop for one entry, sf what syntheticField gave
FilteringEntryStep(m, b, acc, e, sf) ==
    IF sf.err # "none" THEN Run(acc.data, sf.err, acc.calls, acc.touched)
    ELSE IF ~sf.nil THEN acc
    ELSE FilteringEntry(m, b, acc, e.name,
                        Field(e.name, "", "", FALSE, e.value),
                        e.value.valueType,
                        getDenyRules(e.value, e.value.valueType))

\* first loop: a synthetic entry without url yields one entry of its own
RECURSIVE FilteringEntries(_, _, _, _)
FilteringEntries(m, b, entries, acc) ==
    IF entries = <<>> \/ acc.err # "none" THEN acc
    ELSE FilteringEntries(m, b, Tail(entries),
            FilteringEntryStep(m, b, acc, Head(entries),
                syntheticField(Head(entries).name, Head(entries).value)))

RECURSIVE getFilteringDataAux(_, _)

\* a filtering resolver that looks at the repeated flag only after the
\* classifier
FilteringRepeatedLast(field, opts) == FALSE

\* line 576: the repeated check of a field without value type override
FilteringRepeated(field, opts) == field.repeated

\* a filtering resolver that denies the field when the budget is used up
FilteringAtLimitDenied(path) == <<DenyAll(path)>>

\* lines 591-593: with the budget used up the field is skipped
FilteringAtLimit(path) == <<>>

\* fieldName: ".*" is appended for a JSONValue
FilteringPath(field) ==
    IF field.typeName = protoTypeJSONValue
        THEN <<field.name, "*">> ELSE <<field.name>>

\* the value type line 625 passes on: the override, else the classifier's
FilteringValueType(field, opts) ==
    IF opts.valueType # "DEFAULT" THEN opts.valueType ELSE getValueType(field)

\* lines 600-607: the nested entries, re-parented
FilteringDescend(m, b, origin, decl, field, nested) ==
    Descend("filtering", m, b, origin, decl, field, nested,
            Reparent(field.name, nested.data))

\* line 625: the entry of a field with a value type, dr from getDenyRules
FilteringRule(m, b, origin, decl, field, valueType, dr) ==
    IF dr.err # "none"
        THEN Failed("filtering", m, b, origin, decl, field, dr.err)
    ELSE One("filtering", m, b, origin, decl, field,
             <<Entry(FilteringPath(field), valueType, dr.res)>>)

\* lines 569-626 for the field f.field with the options f.opts
FilteringResolve(m, b, origin, decl, f) ==
    IF f.err # "none"
        THEN Failed("filtering", m, b, origin, decl, f.field, f.err)
    ELSE IF f.opts.valueType = "DEFAULT" /\ FilteringRepeated(f.field, f.opts)
        THEN One("filtering", m, b, origin, decl, f.field,
                 <<DenyAll(FilteringPath(f.field))>>)
    ELSE IF f.opts.valueType = "DEFAULT" /\ getValueType(f.field) = "DEFAULT"
        THEN IF b = 1
                 THEN One("filtering", m, b, origin, decl, f.field,
                          FilteringAtLimit(FilteringPath(f.field)))
             ELSE IF f.field.type = "TYPE_MESSAGE" /\ allowNested(m, f.opts)
                 THEN IF Overflows(b)
                          THEN Failed("filtering", m, b, origin, decl, f.field,
                                      "stackOverflow")
                      ELSE FilteringDescend(m, b, origin, decl, f.field,
                               getFilteringDataAux(f.field.typeName, b - 1))
             ELSE One("filtering", m, b, origin, decl, f.field,
                      <<DenyAll(FilteringPath(f.field))>>)
    ELSE FilteringRule(m, b, origin, decl, f.field,
                       FilteringValueType(f.field, f.opts),
                       getDenyRules(f.opts, FilteringValueType(f.field, f.opts)))

\* one iteration of the second loop (lines 563-626) for the field decl
FilteringField(m, b, origin, decl) ==
    FilteringResolve(m, b, origin, decl, LoopField(decl))

RECURSIVE FilteringFields(_, _, _, _)
FilteringFields(m, b, fields, acc) ==
    IF fields = <<>> \/ acc.err # "none" THEN acc
    ELSE FilteringFields(m, b, Tail(fields),
            Appended(acc, FilteringField(m, b, Head(fields).origin,
                                         Head(fields).decl)))

\* the two loops, mo what getMessageQueryValidationOptions returned
FilteringLoops(m, b, mo) ==
    IF mo.err # "none" THEN Run(<<>>, mo.err, {}, {m})
    ELSE FilteringFields(m, b, FieldsOf(m, mo.entries),
            FilteringEntries(m, b, mo.entries, Run(<<>>, "none", {}, {m})))

getFilteringDataAux(m, b) ==
    FilteringLoops(m, b, getMessageQueryValidationOptions(m))

\* getFilteringData(msg)
getFilteringData(m) == getFilteringDataAux(m, getNestDepth(m))

-----------------------------------------------------------------------------
(* getSortingDataAux and getFieldSelectionDataAux: data is a list of paths *)

\* opts.GetSorting().GetDisable() / opts.GetFieldSelection().GetDisable()
Disabled(kind, opts) ==
    IF kind = "sorting" THEN opts.sorting = "disabled"
    ELSE opts.fieldSelection = "disabled"

\* the branch of the first loop for one entry, sf what syntheticField gave
PathEntryStep(kind, m, b, acc, e, pf, sf) ==
    IF sf.err # "none" THEN Run(acc.data, sf.err, acc.calls, acc.touched)
    ELSE IF ~sf.nil THEN acc
    ELSE Appended(acc, One(kind, m, b, "entry", pf, pf,
                           IF Disabled(kind, e.value) THEN <<>>
                           ELSE <<(<<e.name>>)>>))

\* first loop of both resolvers (lines 700-706 and 764-770)
RECURSIVE PathEntries(_, _, _, _, _)
PathEntries(kind, m, b, entries, acc) ==
    IF entries = <<>> \/ acc.err # "none" THEN acc
    ELSE PathEntries(kind, m, b, Tail(entries),
            PathEntryStep(kind, m, b, acc, Head(entries),
                Field(Head(entries).name, "", "", FALSE, Head(entries).value),
                syntheticField(Head(entries).name, Head(entries).value)))

RECURSIVE getSortingDataAux(_, _)

\* a sorting resolver that records the field after its nested paths
SortingNestedWithParent(name, nested) ==
    ReparentPaths(name, nested) \o <<(<<name>>)>>

\* lines 737-739: the paths a nested message contributes
SortingNested(name, nested) == ReparentPaths(name, nested)

\* lines 736-739: the nested paths, re-parented
SortingDescend(m, b, origin, decl, field, nested) ==
    Descend("sorting", m, b, origin, decl, field, nested,
            SortingNested(field.name, nested.data))

\* lines 717-747 for the field f.field with the options f.opts
SortingResolve(m, b, origin, decl, f) ==
    IF f.err # "none"
        THEN Failed("sorting", m, b, origin, decl, f.field, f.err)
    ELSE IF Disabled("sorting", f.opts)
        THEN One("sorting", m, b, origin, decl, f.field, <<>>)
    ELSE IF f.opts.valueType = "DEFAULT" /\ f.field.repeated
        THEN One("sorting", m, b, origin, decl, f.field, <<>>)
    ELSE IF f.opts.valueType = "DEFAULT" /\ getValueType(f.field) = "DEFAULT"
        THEN IF b = 1 THEN One("sorting", m, b, origin, decl, f.field, <<>>)
             ELSE IF f.field.type = "TYPE_MESSAGE" /\ allowNested(m, f.opts)
                 THEN IF Overflows(b)
                          THEN Failed("sorting", m, b, origin, decl, f.field,
                                      "stackOverflow")
                      ELSE SortingDescend(m, b, origin, decl, f.field,
                               getSortingDataAux(f.field.typeName, b - 1))
             ELSE One("sorting", m, b, origin, decl, f.field, <<>>)
    ELSE One("sorting", m, b, origin, decl, f.field, <<(<<f.field.name>>)>>)

\* one iteration of the second loop (lines 710-747)
SortingField(m, b, origin, decl) ==
    SortingResolve(m, b, origin, decl, LoopField(decl))

RECURSIVE SortingFields(_, _, _, _)
SortingFields(m, b, fields, acc) ==
    IF fields = <<>> \/ acc.err # "none" THEN acc
    ELSE SortingFields(m, b, Tail(fields),
            Appended(acc, SortingField(m, b, Head(fields).origin,
                                       Head(fields).decl)))

\* the two loops, mo what getMessageQueryValidationOptions returned
SortingLoops(m, b, mo) ==
    IF mo.err # "none" THEN Run(<<>>, mo.err, {}, {m})
    ELSE SortingFields(m, b, FieldsOf(m, mo.entries),
            PathEntries("sorting", m, b, mo.entries,
                        Run(<<>>, "none", {}, {m})))

getSortingDataAux(m, b) ==
    SortingLoops(m, b, getMessageQueryValidationOptions(m))

\* getSortingData(msg)
getSortingData(m) == getSortingDataAux(m, getNestDepth(m))

RECURSIVE getFieldSelectionDataAux(_, _)

\* the type names the switch of lines 790-803 lists with an empty case
SelectionLeafTypes ==
    {protoTypeResource, protoTypeTimestamp, protoTypeUUID, protoTypeUUIDValue,
     protoTypeInet, protoTypeStringValue, protoTypeBoolValue,
     protoTypeDoubleValue, protoTypeFloatValue, protoTypeInt32Value,
     protoTypeInt64Value, protoTypeUInt32Value, protoTypeUInt64Value}

\* a selection resolver that leaves the field out once it has descended
SelectionNestedOnly(name, nested) == ReparentPaths(name, nested)

\* lines 811-818: the nested paths, then the field itself
SelectionNested(name, nested) ==
    ReparentPaths(name, nested) \o <<(<<name>>)>>

\* lines 811-818: the nested paths, re-parented, and the field
SelectionDescend(m, b, origin, decl, field, nested) ==
    Descend("fieldSelection", m, b, origin, decl, field, nested,
            SelectionNested(field.name, nested.data))

\* lines 781-819 for the field f.field with the options f.opts
SelectionResolve(m, b, origin, decl, f) ==
    IF f.err # "none"
        THEN Failed("fieldSelection", m, b, origin, decl, f.field, f.err)
    ELSE IF Disabled("fieldSelection", f.opts)
        THEN One("fieldSelection", m, b, origin, decl, f.field, <<>>)
    ELSE IF /\ f.opts.valueType = "DEFAULT"
            /\ f.field.type = "TYPE_MESSAGE"
            /\ f.field.typeName \notin SelectionLeafTypes
        THEN IF b = 1
                 THEN One("fieldSelection", m, b, origin, decl, f.field, <<>>)
             ELSE IF Overflows(b)
                 THEN Failed("fieldSelection", m, b, origin, decl, f.field,
                             "stackOverflow")
             ELSE SelectionDescend(m, b, origin, decl, f.field,
                      getFieldSelectionDataAux(f.field.typeName, b - 1))
    ELSE One("fieldSelection", m, b, origin, decl, f.field,
             <<(<<f.field.name>>)>>)

\* one iteration of the second loop (lines 774-819)
SelectionField(m, b, origin, decl) ==
    SelectionResolve(m, b, origin, decl, LoopField(decl))

RECURSIVE SelectionFields(_, _, _, _)
SelectionFields(m, b, fields, acc) ==
    IF fields = <<>> \/ acc.err # "none" THEN acc
    ELSE SelectionFields(m, b, Tail(fields),
            Appended(acc, SelectionField(m, b, Head(fields).origin,
                                         Head(fields).decl)))

\* the two loops, mo what getMessageQueryValidationOptions returned
SelectionLoops(m, b, mo) ==
    IF mo.err # "none" THEN Run(<<>>, mo.err, {}, {m})
    ELSE SelectionFields(m, b, FieldsOf(m, mo.entries),
            PathEntries("fieldSelection", m, b, mo.entries,
                        Run(<<>>, "none", {}, {m})))

getFieldSelectionDataAux(m, b) ==
    SelectionLoops(m, b, getMessageQueryValidationOptions(m))

\* getFieldSelectionData(msg)
getFieldSelectionData(m) == getFieldSelectionDataAux(m, getNestDepth(m))

-----------------------------------------------------------------------------
(* Endpoint aggregation: genFiltering, genSorting, genFieldSelection *)

\* the methods of the file's service, in declaration order
Methods ==
    << [name |-> "/pkg.Svc/List", input |-> "Req",  output |-> "Resp"],
       [name |-> "/pkg.Svc/Read", input |-> "Req2", output |-> "Resp2"] >>

\* hasFiltering / hasSorting / hasFieldSelection: marker is the type name
hasMarkerAlways(m, marker) == TRUE

hasMarker(m, marker) ==
    \E i \in 1..Len(schema[m].fields) : schema[m].fields[i].typeName = marker

hasFiltering(m) == hasMarker(m, filtering)

hasSorting(m) == hasMarker(m, sorting)

hasFieldSelection(m) == hasMarker(m, fieldSelection)

\* getResultMessage(msg): [nil, msg]
RECURSIVE ResultMessageFrom(_)
ResultMessageFrom(fields) ==
    IF fields = <<>> THEN [nil |-> TRUE, msg |-> ""]
    ELSE IF /\ Head(fields).name \in {"result", "results"}
            /\ Head(fields).type = "TYPE_MESSAGE"
        THEN [nil |-> FALSE, msg |-> Head(fields).typeName]
    ELSE ResultMessageFrom(Tail(fields))

getResultMessage(m) == ResultMessageFrom(schema[m].fields)

NoTable == [e \in {} |-> <<>>]

NoTables ==
    [filtering |-> NoTable, sorting |-> NoTable, fieldSelection |-> NoTable]

Resolve(kind, m) ==
    IF kind = "filtering" THEN getFilteringData(m)
    ELSE IF kind = "sorting" THEN getSortingData(m)
    ELSE getFieldSelectionData(m)

Requested(kind, m) ==
    IF kind = "filtering" THEN hasFiltering(m)
    ELSE IF kind = "sorting" THEN hasSorting(m)
    ELSE hasFieldSelection(m)

\* the body of the loop for a method whose table entry is written: r is
\* what the resolver returned for the result message
GenEntry(acc, name, r) ==
    [table   |-> IF r.err = "none" THEN acc.table @@ (name :> r.data)
                 ELSE acc.table,
     err     |-> r.err,
     calls   |-> acc.calls \cup r.calls,
     touched |-> acc.touched \cup r.touched]

\* the body of the loop for one method, result its result message
GenMethod(kind, acc, method, result) ==
    IF Requested(kind, method.input) /\ ~result.nil
        THEN GenEntry(acc, method.name, Resolve(kind, result.msg))
    ELSE acc

\* the loop over the methods that the three gen functions share:
\* [table, err, calls, touched]
RECURSIVE GenLoop(_, _, _)
GenLoop(kind, methods, acc) ==
    IF methods = <<>> \/ acc.err # "none" THEN acc
    ELSE GenLoop(kind, Tail(methods),
            GenMethod(kind, acc, Head(methods),
                      getResultMessage(Head(methods).output)))

Gen(kind) ==
    GenLoop(kind, Methods,
            [table |-> NoTable, err |-> "none", calls |-> {}, touched |-> {}])

\* the descriptors after a resolver has read the options of the messages in
\* touched: getMessageQueryValidationOptions and getQueryValidationOptions
\* store their defaults in the extension objects themselves
Defaulted(s, touched) ==
    [m \in DOMAIN s |->
        IF m \notin touched THEN s[m]
        ELSE [opts |-> [s[m].opts EXCEPT
                          !.validate = [i \in 1..Len(@) |->
                              [@[i] EXCEPT !.value = DefaultedEntryValue(@)]]],
              fields |-> [i \in 1..Len(s[m].fields) |->
                              [s[m].fields[i] EXCEPT
                                  !.opts = getQueryValidationOptions(@)]]]]

GenDone(kind, next, g) ==
    /\ calls' = g.calls
    /\ IF g.err # "none"
          THEN /\ pc' = "failed"
               /\ err' = g.err
               /\ UNCHANGED <<schema, tables>>
          ELSE /\ pc' = next
               /\ err' = "none"
               /\ schema' = Defaulted(schema, g.touched)
               /\ tables' = [tables EXCEPT ![kind] = g.table]
    /\ UNCHANGED <<mode, declared, alwaysNest, maxNesting, prev, round,
                   ruleIn, ruleOut, permIn, permOut>>

GenStep(kind, next) == GenDone(kind, next, Gen(kind))

GenFiltering == mode = "generate" /\ pc = "genFiltering"
                /\ GenStep("filtering", "genSorting")

GenSorting == mode = "generate" /\ pc = "genSorting"
              /\ GenStep("sorting", "genFieldSelection")

GenFieldSelection == mode = "generate" /\ pc = "genFieldSelection"
                     /\ GenStep("fieldSelection", "done")

\* the generator calls Generate again over the same descriptors
Generate ==
    /\ mode = "generate" /\ pc = "done" /\ round < MaxRounds
    /\ pc' = "genFiltering"
    /\ round' = round + 1
    /\ prev' = tables
    /\ tables' = NoTables
    /\ calls' = {}
    /\ UNCHANGED <<mode, schema, declared, alwaysNest, maxNesting, err,
                   ruleIn, ruleOut, permIn, permOut>>

-----------------------------------------------------------------------------
(* The allow/deny resolver on its own, and the deny-only variant of          *)
(* PermPlugin                                                                *)

GetDenyRules ==
    /\ mode = "rules" /\ ~ruleOut.done
    /\ LET r == getDenyRules(ruleIn.opts, ruleIn.filterType)
       IN  ruleOut' = [done |-> TRUE, res |-> r.res, err |-> r.err]
    /\ UNCHANGED <<mode, schema, declared, alwaysNest, maxNesting, pc, err,
                   tables, prev, round, calls, ruleIn, permIn, permOut>>

\* keys of query.StringCondition_Type_value and query.NumberCondition_Type_value
StringConditionTypes == {"EQ", "MATCH", "GT", "GE", "LT", "LE"}

NumberConditionTypes == {"EQ", "GT", "GE", "LT", "LE"}

PermNumericTypes ==
    {"TYPE_DOUBLE", "TYPE_FLOAT", "TYPE_INT64", "TYPE_UINT64", "TYPE_INT32",
     "TYPE_FIXED64", "TYPE_FIXED32", "TYPE_UINT32", "TYPE_SFIXED32",
     "TYPE_SFIXED64", "TYPE_SINT32", "TYPE_SINT64"}

\* a switch whose default case takes the field for a numeric one
PermSupportedOpsNumericDefault(fieldType) ==
    IF fieldType = "TYPE_STRING" THEN [ok |-> TRUE, ops |-> StringConditionTypes]
    ELSE [ok |-> TRUE, ops |-> NumberConditionTypes]

\* the switch of lines 199-211: [ok, ops]
PermSupportedOps(fieldType) ==
    IF fieldType = "TYPE_STRING" THEN [ok |-> TRUE, ops |-> StringConditionTypes]
    ELSE IF fieldType \in PermNumericTypes
        THEN [ok |-> TRUE, ops |-> NumberConditionTypes]
    ELSE [ok |-> FALSE, ops |-> {}]

\* One item of strings.Split(ops, ","): the operator name it spells and
\* whether blanks surround it.  strings.TrimSpace(item) is item.name; the
\* item equals an operator name only when no blank surrounds it.
Token(name, sp) == [name |-> name, sp |-> sp]

\* lines 228-239 for one iteration order of the map supportedOps
RECURSIVE PermNotAllowed(_, _)
PermNotAllowed(order, vals) ==
    IF order = <<>> THEN <<>>
    ELSE (IF InSeq(Token(Head(order), FALSE), vals) THEN <<>>
          ELSE <<Token(Head(order), FALSE)>>)
         \o PermNotAllowed(Tail(order), vals)

\* getDenyOperations(fieldName, fieldType, permissionOpts) when the range over
\* the map supportedOps visits its keys in the given order: [res, err]
getDenyOperations(in, order) ==
    LET opsAllowed == in.allow
        opsDenied  == in.deny
        supported  == PermSupportedOps(in.fieldType)
        vals       == IF Len(opsDenied) > 0 THEN opsDenied ELSE opsAllowed
    IN  IF Len(opsAllowed) = 0 /\ Len(opsDenied) = 0
            THEN [res |-> <<>>, err |-> "none"]
        ELSE IF Len(opsAllowed) > 0 /\ Len(opsDenied) > 0
            THEN [res |-> <<>>, err |-> "conflict"]
        ELSE IF ~supported.ok
            THEN [res |-> <<>>, err |-> "unsupportedFieldType"]
        ELSE IF \E i \in 1..Len(vals) : vals[i].name \notin supported.ops
            THEN [res |-> <<>>, err |-> "unknownOperation"]
        ELSE IF Len(opsDenied) = 0
            THEN [res |-> PermNotAllowed(order, vals), err |-> "none"]
        ELSE [res |-> vals, err |-> "none"]

\* the orders in which the range of line 228 may visit the keys of the map;
\* the map is ranged over in the allow branch only
PermRangeOrders(in) ==
    IF Len(in.allow) > 0 /\ Len(in.deny) = 0
        THEN Perms(PermSupportedOps(in.fieldType).ops)
    ELSE {<<>>}

\* generateMessagePermissions for the message holding the annotated field
GenerateMessagePermissions ==
    /\ mode = "perm" /\ permOut.n < MaxRounds
    /\ \E order \in PermRangeOrders(permIn) :
          LET r == getDenyOperations(permIn, order)
          IN  permOut' = [n |-> permOut.n + 1, res |-> r.res, err |-> r.err]
    /\ UNCHANGED <<mode, schema, declared, alwaysNest, maxNesting, pc, err,
                   tables, prev, round, calls, ruleIn, ruleOut, permIn>>

-----------------------------------------------------------------------------
(* Initial states: the generator parameters and the descriptors of one file *)

\* QueryValidatePlugin.Init: maxNesting from the parameter
\* nested_field_depth_limit, [given, valid, n]
PluginMaxNesting(param) ==
    LET n == IF ~param.given THEN 2
             ELSE IF param.valid THEN param.n
             ELSE 0
    IN  IF n < 1 THEN 1 ELSE n

NoParam == [given |-> FALSE, valid |-> FALSE, n |-> 0]

BadParam == [given |-> TRUE, valid |-> FALSE, n |-> 0]

Param(n) == [given |-> TRUE, valid |-> TRUE, n |-> n]

\* a field extension; one that sets nothing is the nil extension
Opts(valueType, allow, deny, srt, sel, nest, nestedFields, url) ==
    LET o == [present |-> TRUE, valueType |-> valueType, allow |-> allow,
              deny |-> deny, sorting |-> srt, fieldSelection |-> sel,
              enableNested |-> nest, nestedFields |-> nestedFields, url |-> url]
    IN  IF [o EXCEPT !.present = FALSE] = NilOpts THEN NilOpts ELSE o

\* the value of a synthetic entry is always a message of its own
EntryValue(valueType, allow, deny, srt, sel, nest, nestedFields, url) ==
    [present |-> TRUE, valueType |-> valueType, allow |-> allow,
     deny |-> deny, sorting |-> srt, fieldSelection |-> sel,
     enableNested |-> nest, nestedFields |-> nestedFields, url |-> url]

AllMarkers == {filtering, sorting, fieldSelection}

MarkerFields(markers) ==
    (IF filtering \in markers
        THEN <<Field("filter", "TYPE_MESSAGE", filtering, FALSE, NilOpts)>>
        ELSE <<>>)
    \o (IF sorting \in markers
        THEN <<Field("order_by", "TYPE_MESSAGE", sorting, FALSE, NilOpts)>>
        ELSE <<>>)
    \o (IF fieldSelection \in markers
        THEN <<Field("fields", "TYPE_MESSAGE", fieldSelection, FALSE, NilOpts)>>
        ELSE <<>>)
    \o <<Field("paging", "TYPE_MESSAGE", ".infoblox.api.Pagination", FALSE,
               NilOpts)>>

Plain(fields) == [opts |-> NilMessageOpts, fields |-> fields]

\* a scenario: the probe field f of M1, the synthetic entries and options of
\* M1, the shape of the List endpoint and the generator parameters
BaseScenario ==
    [probe      |-> Field("f", "TYPE_STRING", "", FALSE, NilOpts),
     syn        |-> <<>>,
     m1         |-> [present |-> FALSE, depthLimit |-> 0, enableNested |-> FALSE],
     markers    |-> AllMarkers,
     resName    |-> "result",
     resType    |-> "TYPE_MESSAGE",
     resTarget  |-> "M1",
     alwaysNest |-> FALSE,
     param      |-> NoParam]

SchemaOf(sc) ==
    ("Req"   :> Plain(MarkerFields(sc.markers)))
 @@ ("Resp"  :> Plain(<<Field("page", "TYPE_MESSAGE", "M2", FALSE, NilOpts),
                        Field(sc.resName, sc.resType, sc.resTarget, TRUE, NilOpts)>>))
 @@ ("Req2"  :> Plain(MarkerFields(AllMarkers)))
 @@ ("Resp2" :> Plain(<<Field("result", "TYPE_MESSAGE", "M2", FALSE, NilOpts)>>))
 @@ ("M1"    :> [opts |-> [present |-> sc.m1.present \/ sc.syn # <<>>,
                           depthLimit |-> sc.m1.depthLimit,
                           enableNested |-> sc.m1.enableNested,
                           validate |-> sc.syn],
                 fields |-> <<Field("id", "TYPE_INT64", "", FALSE, NilOpts),
                              sc.probe>>])
 @@ ("M2"    :> Plain(<<Field("code", "TYPE_STRING", "", FALSE, NilOpts),
                        Field("owner", "TYPE_MESSAGE", "M1", FALSE,
                              Opts("DEFAULT", <<>>, <<>>, "nil", "nil", TRUE,
                                   <<>>, ""))>>))
 @@ ("Empty" :> Plain(<<>>))
 @@ (protoTypeJSONValue :>
                Plain(<<Field("value", "TYPE_STRING", "", FALSE, NilOpts)>>))

\* pairs of an allow list and a deny list over S, at most n operators in all
ListPairs(S, n) ==
    {pr \in SeqsUpTo(S, n) \X SeqsUpTo(S, n) : Len(pr[1]) + Len(pr[2]) <= n}

ProbeOps == {"EQ", "MATCH", "GT", "ALL"}

ScalarTypes ==
    {"TYPE_STRING", "TYPE_ENUM", "TYPE_BOOL", "TYPE_DOUBLE", "TYPE_FLOAT",
     "TYPE_INT32", "TYPE_INT64", "TYPE_SINT32", "TYPE_SINT64", "TYPE_UINT32",
     "TYPE_UINT64", "TYPE_FIXED32", "TYPE_FIXED64", "TYPE_SFIXED32",
     "TYPE_SFIXED64", "TYPE_BYTES"}

WellKnownTypes ==
    {protoTypeResource, protoTypeTimestamp, protoTypeUUID, protoTypeUUIDValue,
     protoTypeInet, protoTypeStringValue, protoTypeJSONValue,
     protoTypeDoubleValue, protoTypeFloatValue, protoTypeInt32Value,
     protoTypeInt64Value, protoTypeUInt32Value, protoTypeUInt64Value,
     protoTypeBoolValue}

\* [type, typeName] of every kind of field
AllTypes ==
    {<<ty, "">> : ty \in ScalarTypes}
    \cup {<<"TYPE_MESSAGE", tn>> : tn \in WellKnownTypes \cup {"M2"}}

SomeTypes ==
    {<<"TYPE_STRING", "">>, <<"TYPE_INT64", "">>, <<"TYPE_MESSAGE", "M2">>}

NestTypes ==
    {<<"TYPE_MESSAGE", "M2">>, <<"TYPE_MESSAGE", protoTypeJSONValue>>,
     <<"TYPE_BYTES", "">>, <<"TYPE_STRING", "">>}

Toggles == {"nil", "enabled", "disabled"}

\* allow and deny lists of every shape on a few types
ListScenarios ==
    {[BaseScenario EXCEPT
        !.probe = Field("f", ty[1], ty[2], rep,
                        Opts(vt, pr[1], pr[2], "nil", "nil", FALSE, <<>>, ""))] :
     ty \in SomeTypes, rep \in BOOLEAN, vt \in ValueTypes,
     pr \in ListPairs(ProbeOps, MaxOps)}

\* every declared type
TypeScenarios ==
    {[BaseScenario EXCEPT
        !.probe = Field("f", ty[1], ty[2], rep,
                        Opts(vt, pr[1], pr[2], "nil", "nil", FALSE, <<>>, "")),
        !.param = Param(b)] :
     ty \in AllTypes, rep \in BOOLEAN, vt \in {"DEFAULT", "STRING"},
     pr \in {<<(<<>>), (<<>>)>>, <<(<<>>), (<<"ALL">>)>>,
             <<(<<"EQ">>), (<<"GT">>)>>},
     b \in 1..2}

\* the annotation of a field that may be descended into
NestScenarios ==
    {[BaseScenario EXCEPT
        !.probe = Field("f", ty[1], ty[2], rep,
                        Opts(vt, <<>>, <<>>, srt, sel, nest, <<>>, url)),
        !.param = Param(b)] :
     ty \in NestTypes, rep \in BOOLEAN, vt \in {"DEFAULT", "NUMBER"},
     srt \in Toggles, sel \in Toggles, nest \in BOOLEAN,
     url \in {"", "M2", ".pkg.Missing"}, b \in 1..MaxDepth}

\* the ways nesting is permitted and the depth budget chosen
DepthScenarios ==
    {[BaseScenario EXCEPT
        !.probe = Field("f", "TYPE_MESSAGE", "M2", rep,
                        Opts("DEFAULT", <<>>, <<>>, "nil", "nil", nest, nf, "")),
        !.m1 = [present |-> mp, depthLimit |-> IF mp THEN lim ELSE 0,
                enableNested |-> mp /\ mnest],
        !.alwaysNest = always,
        !.param = par] :
     rep \in BOOLEAN, nest \in BOOLEAN, nf \in {<<>>, <<"code">>},
     mp \in BOOLEAN, lim \in (0 - 1)..MaxDepth, mnest \in BOOLEAN,
     always \in BOOLEAN,
     par \in {NoParam, BadParam} \cup {Param(n) : n \in 0..MaxDepth}}

\* synthetic entries of M1
SynScenarios ==
    {[BaseScenario EXCEPT
        !.syn = <<[name |-> nm,
                   value |-> EntryValue(vt, pr[1], pr[2], srt, sel, FALSE, nf,
                                        url)]>>,
        !.param = Param(b)] :
     nm \in {"s", "f"}, vt \in ValueTypes,
     pr \in {<<(<<>>), (<<>>)>>, <<(<<>>), (<<"ALL">>)>>,
             <<(<<"EQ">>), (<<>>)>>, <<(<<"EQ">>), (<<"GT">>)>>},
     srt \in Toggles, sel \in Toggles, nf \in {<<>>, <<"code">>},
     url \in {"", "M2", ".pkg.Missing"}, b \in 1..2}
    \cup
    {[BaseScenario EXCEPT !.syn = <<[name |-> nm, value |-> v]>>] :
     nm \in {"", "s"},
     v \in {NilOpts, EntryValue("STRING", <<>>, <<>>, "nil", "nil", FALSE,
                                <<>>, "")}}

\* the shape of the endpoint
EndpointScenarios ==
    {[BaseScenario EXCEPT
        !.markers = mk, !.resName = rn, !.resType = rt, !.resTarget = tg] :
     mk \in SUBSET AllMarkers, rn \in {"result", "results", "data"},
     rt \in {"TYPE_MESSAGE", "TYPE_STRING"}, tg \in {"M1", "Empty"}}

Scenarios ==
    ListScenarios \cup TypeScenarios \cup NestScenarios \cup DepthScenarios
    \cup SynScenarios \cup EndpointScenarios

Idle == [done |-> FALSE, res |-> <<>>, err |-> "none"]

NoRule == [opts |-> NilOpts, filterType |-> "DEFAULT"]

NoPerm == [fieldType |-> "", allow |-> <<>>, deny |-> <<>>]

InitGenerate ==
    /\ mode = "generate"
    /\ \E sc \in Scenarios :
          /\ schema = SchemaOf(sc)
          /\ declared = SchemaOf(sc)
          /\ alwaysNest = sc.alwaysNest
          /\ maxNesting = PluginMaxNesting(sc.param)
    /\ pc = "genFiltering"
    /\ err = "none"
    /\ tables = NoTables
    /\ prev = NoTables
    /\ round = 1
    /\ calls = {}
    /\ ruleIn = NoRule
    /\ ruleOut = Idle
    /\ permIn = NoPerm
    /\ permOut = [n |-> 0, res |-> <<>>, err |-> "none"]

InitRules ==
    /\ mode = "rules"
    /\ \E pr \in ListPairs(FilterOperators, MaxOps), ft \in ValueTypes :
          ruleIn = [opts |-> [NilOpts EXCEPT !.present = TRUE,
                                             !.allow = pr[1], !.deny = pr[2]],
                    filterType |-> ft]
    /\ ruleOut = Idle
    /\ schema = SchemaOf(BaseScenario)
    /\ declared = SchemaOf(BaseScenario)
    /\ alwaysNest = FALSE
    /\ maxNesting = PluginMaxNesting(NoParam)
    /\ pc = "idle"
    /\ err = "none"
    /\ tables = NoTables
    /\ prev = NoTables
    /\ round = 1
    /\ calls = {}
    /\ permIn = NoPerm
    /\ permOut = [n |-> 0, res |-> <<>>, err |-> "none"]

\* the option strings of the permission extension, as their comma separated
\* items: "", "EQ", "EQ,GT", "EQ, GT", "MATCH", "LIKE", "ALL"
PermLists ==
    { <<>>, <<Token("EQ", FALSE)>>,
      <<Token("EQ", FALSE), Token("GT", FALSE)>>,
      <<Token("EQ", FALSE), Token("GT", TRUE)>>,
      <<Token("MATCH", FALSE)>>, <<Token("LIKE", FALSE)>>,
      <<Token("ALL", FALSE)>> }

InitPerm ==
    /\ mode = "perm"
    /\ \E ft \in {"TYPE_STRING", "TYPE_INT64", "TYPE_FIXED32", "TYPE_BOOL",
                  "TYPE_BYTES", "TYPE_MESSAGE"},
          a \in PermLists, d \in PermLists :
          \* a string field allows two operators or none, which keeps the
          \* number of distinct results of the map range small
          /\ ft = "TYPE_STRING" => Len(a) # 1
          /\ permIn = [fieldType |-> ft, allow |-> a, deny |-> d]
    /\ permOut = [n |-> 0, res |-> <<>>, err |-> "none"]
    /\ ruleIn = NoRule
    /\ ruleOut = Idle
    /\ schema = SchemaOf(BaseScenario)
    /\ declared = SchemaOf(BaseScenario)
    /\ alwaysNest = FALSE
    /\ maxNesting = PluginMaxNesting(NoParam)
    /\ pc = "idle"
    /\ err = "none"
    /\ tables = NoTables
    /\ prev = NoTables
    /\ round = 1
    /\ calls = {}

Init == InitGenerate \/ InitRules \/ InitPerm

Next ==
    \/ GenFiltering
    \/ GenSorting
    \/ GenFieldSelection
    \/ Generate
    \/ GetDenyRules
    \/ GenerateMessagePermissions

Spec == Init /\ [][Next]_vars

-----------------------------------------------------------------------------
(* Properties *)

\* the operator eligibility table of the specification (section 4.2)
EligibilityTable(category) ==
    IF category = "NUMBER" THEN <<"EQ", "GT", "GE", "LT", "LE", "IN">>
    ELSE IF category = "STRING"
        THEN <<"EQ", "MATCH", "GT", "GE", "LT", "LE", "IN", "IEQ">>
    ELSE IF category = "BOOL" THEN <<"EQ", "IN">>
    ELSE <<>>

Eligible(ops, category) ==
    \A i \in 1..Len(ops) :
        InSeq(ops[i], EligibilityTable(category)) \/ ops[i] = "ALL"

\* the operators of a table that a list does not name, in table order
Without(table, ops) ==
    LET Kept(op) == ~InSeq(op, ops) IN SelectSeq(table, Kept)

FilteringCalls == {c \in calls : c.kind = "filtering"}

\* the field carries both an allow list and a deny list
BothLists(o) == Len(o.allow) > 0 /\ Len(o.deny) > 0

\* the category getFilteringDataAux hands to getDenyRules for the field of
\* call c, "DEFAULT" when it never calls it
CallCategory(c) ==
    IF c.origin = "entry" THEN c.field.opts.valueType
    ELSE IF c.field.opts.valueType # "DEFAULT" THEN c.field.opts.valueType
    ELSE IF c.field.repeated THEN "DEFAULT"
    ELSE getValueType(c.field)

ReachesDenyRules(c) == c.origin = "entry" \/ CallCategory(c) # "DEFAULT"

\* the paths under which the field of call c may be recorded
OwnPaths(c) == {<<c.field.name>>, <<c.field.name, "*">>}

\* C1: every field or synthetic entry with a non-empty allow list and a
\* non-empty deny list that the filtering resolver processes stops the
\* resolution with the conflict error, whatever its type, repeated flag,
\* override, nesting permission or depth budget.
C1_ConflictAlwaysRaised ==
    \A c \in FilteringCalls : BothLists(c.decl.opts) => c.err = "conflict"

\* C2: for STRING, NUMBER and BOOL, a non-empty allow list of eligible
\* operators (deny list empty) resolves to the operators of the category's
\* table that the list does not name, in table order; with ALL anywhere in
\* the allow list the result is empty.
C2_AllowListResolution ==
    (/\ mode = "rules" /\ ruleOut.done
     /\ ruleIn.filterType \in {"STRING", "NUMBER", "BOOL"}
     /\ Len(ruleIn.opts.allow) > 0 /\ Len(ruleIn.opts.deny) = 0
     /\ Eligible(ruleIn.opts.allow, ruleIn.filterType))
    => /\ ruleOut.err = "none"
       /\ ruleOut.res =
            IF InSeq("ALL", ruleIn.opts.allow) THEN <<>>
            ELSE Without(EligibilityTable(ruleIn.filterType), ruleIn.opts.allow)

C2_Witness ==
    /\ mode = "rules" /\ ruleOut.done
    /\ ruleIn.filterType = "STRING"
    /\ ruleIn.opts.allow = <<"EQ", "IN">> /\ ruleIn.opts.deny = <<>>
    /\ ruleOut.res = <<"MATCH", "GT", "GE", "LT", "LE", "IEQ">>

\* C3 as stated: every field the filtering resolver reaches whose deny list
\* names ALL (allow list empty) gets an entry whose deny set is exactly
\* {ALL}, for every category; a deny list without ALL is recorded verbatim.
C3_DenyAllAnyField ==
    \A c \in FilteringCalls :
        (Len(c.decl.opts.allow) = 0 /\ Len(c.decl.opts.deny) > 0)
        => \E p \in OwnPaths(c) :
              /\ Len(c.out) = 1
              /\ c.out[1].fieldName = p
              /\ c.out[1].deny = IF InSeq("ALL", c.decl.opts.deny)
                                     THEN <<"ALL">> ELSE c.decl.opts.deny

\* C3 amended: a field whose category is STRING, NUMBER or BOOL (by override,
\* or by its type when it is not repeated), or a synthetic entry without
\* target message, with an empty allow list and a deny list of operators
\* eligible for the category or ALL, gets exactly one entry; its deny list is
\* <<ALL>> when the list names ALL anywhere and the list as written otherwise.
C3_DenyAllResolved ==
    \A c \in FilteringCalls :
        (/\ ReachesDenyRules(c)
         /\ Len(c.field.opts.allow) = 0 /\ Len(c.field.opts.deny) > 0
         /\ Eligible(c.field.opts.deny, CallCategory(c)))
        => /\ c.err = "none"
           /\ \E p \in OwnPaths(c) :
                c.out = <<Entry(p, CallCategory(c),
                                IF InSeq("ALL", c.field.opts.deny)
                                    THEN <<"ALL">> ELSE c.field.opts.deny)>>

C3_Witness ==
    \E c \in FilteringCalls :
        /\ c.origin = "field" /\ c.field.type = "TYPE_INT64"
        /\ c.field.opts.deny = <<"EQ", "ALL">>
        /\ c.out = <<Entry(<<"f">>, "NUMBER", <<"ALL">>)>>
        /\ "/pkg.Svc/List" \in DOMAIN tables.filtering

\* the entries of every filtering table generated so far
FilteringEntriesOut ==
    UNION {Range(tables.filtering[e]) : e \in DOMAIN tables.filtering}

\* C4 as stated: in every filtering table every entry of value type NUMBER
\* has a deny set contained in {EQ, GT, GE, LT, LE, IN}.
C4_NumberDenySubset ==
    \A e \in FilteringEntriesOut :
        e.valueType = "NUMBER"
        => Range(e.deny) \subseteq Range(EligibilityTable("NUMBER"))

\* C4 amended: in every filtering table every entry of value type NUMBER has
\* a deny set contained in {EQ, GT, GE, LT, LE, IN}, or exactly the deny
\* list <<ALL>>.
C4_NumberDenySubsetOrAll ==
    \A e \in FilteringEntriesOut :
        e.valueType = "NUMBER"
        => \/ Range(e.deny) \subseteq Range(EligibilityTable("NUMBER"))
           \/ e.deny = <<"ALL">>

C4_Witness ==
    \E e \in FilteringEntriesOut :
        /\ e.valueType = "NUMBER" /\ e.fieldName = <<"f">>
        /\ e.deny = <<"GT", "GE", "LT", "LE", "IN">>

\* C5: getDenyRules given one non-empty list stops with the
\* unsupported-operator error, returning no deny set, exactly when a listed
\* operator is neither in the category's table nor ALL.
C5_UnsupportedRejected ==
    (/\ mode = "rules" /\ ruleOut.done
     /\ (Len(ruleIn.opts.allow) > 0) # (Len(ruleIn.opts.deny) > 0))
    => LET ops == IF Len(ruleIn.opts.deny) > 0 THEN ruleIn.opts.deny
                  ELSE ruleIn.opts.allow
       IN  IF Eligible(ops, ruleIn.filterType)
               THEN ruleOut.err = "none"
           ELSE ruleOut.err = "unsupportedOperator" /\ ruleOut.res = <<>>

C5_Witness ==
    /\ mode = "rules" /\ ruleOut.done
    /\ ruleIn.filterType = "NUMBER"
    /\ ruleIn.opts.deny = <<"MATCH">> /\ ruleIn.opts.allow = <<>>
    /\ ruleOut.err = "unsupportedOperator"

\* the calls made for a field of a message (declared, or materialised from a
\* synthetic entry that names a url)
FieldCalls == {c \in calls : c.origin \in {"field", "synthetic"}}

\* C6 as stated: every repeated field without value type override that the
\* filtering resolver processes gets exactly one entry, with deny list
\* <<ALL>>, and no path below it, whatever its type, its other annotation
\* contents (lists, nesting flags, target message reference) and the budget.
C6_RepeatedAlwaysDenied ==
    \A c \in FilteringCalls :
        (/\ c.origin = "field" /\ c.decl.repeated
         /\ c.decl.opts.valueType = "DEFAULT"
         /\ c.err = "none")
        => \E p \in OwnPaths(c) : c.out = <<DenyAll(p)>>

\* C6 amended: every repeated field with neither a value type override nor a
\* target message reference (value type url) gets exactly one entry, with
\* deny list <<ALL>>, and no path below it, whatever its type, its allow and
\* deny lists, its nesting flags and the budget.
C6_RepeatedDeniedUnlessUrl ==
    \A c \in FilteringCalls :
        (/\ c.origin = "field" /\ c.decl.repeated
         /\ c.decl.opts.valueType = "DEFAULT"
         /\ c.decl.opts.url = "")
        => /\ c.err = "none"
           /\ \E p \in OwnPaths(c) : c.out = <<DenyAll(p)>>

C6_Witness ==
    \E c \in FilteringCalls :
        /\ c.origin = "field" /\ c.decl.repeated
        /\ c.decl.type = "TYPE_MESSAGE" /\ c.decl.typeName = "M2"
        /\ c.decl.opts.enableNested /\ c.budget >= 2
        /\ c.out = <<DenyAll(<<"f">>)>>
        /\ "/pkg.Svc/List" \in DOMAIN tables.filtering

\* a field of an arbitrary message type, without value type override,
\* processed with depth budget 1
MessageAtLimit(c) ==
    /\ c.budget = 1
    /\ c.decl.type = "TYPE_MESSAGE"
    /\ c.decl.typeName \notin WellKnownTypes
    /\ c.decl.opts.valueType = "DEFAULT"
    /\ c.err = "none"

\* C7 as stated: a field of an arbitrary message type without override,
\* processed with budget 1, repeated or not, contributes neither its own path
\* nor a path below it to the filtering, sorting and selection lists.
C7_MessageAtLimitAbsent ==
    \A c \in FieldCalls : MessageAtLimit(c) => c.out = <<>>

\* C7 amended: such a field contributes nothing to the sorting and selection
\* lists, repeated or not, and nothing to the filtering list when it is not
\* repeated.
C7_MessageAtLimitAbsentUnlessRepeated ==
    \A c \in FieldCalls :
        (MessageAtLimit(c) /\ (c.kind = "filtering" => ~c.decl.repeated))
        => c.out = <<>>

C7_Witness ==
    /\ \E c \in FilteringCalls :
          /\ c.origin = "field" /\ MessageAtLimit(c) /\ ~c.decl.repeated
          /\ c.decl.typeName = "M2" /\ c.decl.opts.enableNested
          /\ c.msg = "M1" /\ c.out = <<>>
    /\ "/pkg.Svc/List" \in DOMAIN tables.filtering
    /\ tables.filtering["/pkg.Svc/List"] = <<Entry(<<"id">>, "NUMBER", <<>>)>>

Kinds == {"filtering", "sorting", "fieldSelection"}

Marker(kind) ==
    IF kind = "filtering" THEN ".infoblox.api.Filtering"
    ELSE IF kind = "sorting" THEN ".infoblox.api.Sorting"
    ELSE ".infoblox.api.FieldSelection"

\* the gen function of the kind has run in the current Generate call
Generated(kind) ==
    /\ mode = "generate"
    /\ IF kind = "filtering" THEN pc \in {"genSorting", "genFieldSelection", "done"}
       ELSE IF kind = "sorting" THEN pc \in {"genFieldSelection", "done"}
       ELSE pc = "done"

Qualifies(kind, method) ==
    /\ \E i \in 1..Len(schema[method.input].fields) :
          schema[method.input].fields[i].typeName = Marker(kind)
    /\ \E j \in 1..Len(schema[method.output].fields) :
          /\ schema[method.output].fields[j].name \in {"result", "results"}
          /\ schema[method.output].fields[j].type = "TYPE_MESSAGE"

\* C8: for each capability, the endpoints with an entry in its table are
\* those whose request has a field of the capability's marker type and whose
\* response has a message-kind field named "result" or "results".
C8_EndpointEntries ==
    \A kind \in Kinds :
        Generated(kind)
        => DOMAIN tables[kind] =
              {Methods[i].name : i \in {j \in 1..Len(Methods) :
                                          Qualifies(kind, Methods[j])}}

C8_Witness ==
    /\ mode = "generate" /\ pc = "done"
    /\ \A kind \in Kinds :
          /\ \E i \in 1..Len(schema["Req"].fields) :
                schema["Req"].fields[i].typeName = Marker(kind)
          /\ DOMAIN tables[kind] = {"/pkg.Svc/Read"}

\* C9: two resolutions of the same descriptors give the same tables, entry by
\* entry and with the same ordered deny lists: a second Generate call ends
\* with the tables of the first, and a second getDenyOperations call returns
\* what the first returned.
C9_Deterministic ==
    [][ /\ (mode = "generate" /\ pc' = "done" /\ round' >= 2)
            => tables' = prev'
        /\ (mode = "perm" /\ permOut.n >= 1 /\ permOut'.n = permOut.n + 1)
            => (permOut'.res = permOut.res /\ permOut'.err = permOut.err)
      ]_vars

\* a non-repeated message-kind field without override, nesting permitted,
\* budget above 1, in a capability its annotation does not disable
NestedCase(c) ==
    /\ ~c.decl.repeated
    /\ c.field.type = "TYPE_MESSAGE"
    /\ getValueType(c.field) = "DEFAULT"
    /\ c.field.opts.valueType = "DEFAULT"
    /\ allowNested(c.msg, c.field.opts)
    /\ c.budget > 1
    /\ c.err = "none"
    /\ c.kind # "filtering" => ~Disabled(c.kind, c.field.opts)

\* "f." + p for every p the nested message resolves to with budget b - 1
NestedPaths(c) ==
    IF c.kind = "filtering"
        THEN Reparent(c.field.name,
                      getFilteringDataAux(c.field.typeName, c.budget - 1).data)
    ELSE IF c.kind = "sorting"
        THEN ReparentPaths(c.field.name,
                      getSortingDataAux(c.field.typeName, c.budget - 1).data)
    ELSE ReparentPaths(c.field.name,
                      getFieldSelectionDataAux(c.field.typeName,
                                               c.budget - 1).data)

\* C10 as stated: in each of the three capabilities such a field contributes
\* exactly the re-parented paths of the nested message and no entry whose
\* path is the field itself.
C10_NestedReparented ==
    \A c \in FieldCalls : NestedCase(c) => c.out = NestedPaths(c)

\* C10 amended: in filtering and sorting such a field contributes exactly
\* the re-parented paths of the nested message and no entry of its own; in
\* field selection it contributes the re-parented paths followed by one
\* entry whose path is the field itself.
C10_NestedReparentedSelectionKeepsParent ==
    \A c \in FieldCalls :
        NestedCase(c)
        => c.out = IF c.kind = "fieldSelection"
                       THEN NestedPaths(c) \o <<(<<c.field.name>>)>>
                   ELSE NestedPaths(c)

C10_Witness ==
    /\ mode = "generate" /\ pc = "done" /\ maxNesting = 2
    /\ \E c \in FieldCalls :
          /\ NestedCase(c) /\ c.msg = "M1" /\ c.budget = 2
          /\ c.field.typeName = "M2"
          /\ c.out = << <<"f", "code">>, <<"f">> >>
    /\ tables.filtering["/pkg.Svc/List"] =
          <<Entry(<<"id">>, "NUMBER", <<>>),
            Entry(<<"f", "code">>, "STRING", <<>>)>>
    /\ tables.sorting["/pkg.Svc/List"] = << <<"id">>, <<"f", "code">> >>
    /\ tables.fieldSelection["/pkg.Svc/List"] =
          << <<"id">>, <<"f", "code">>, <<"f">> >>

\* C11: on every schema graph, cyclic ones included, and for every default
\* depth and every message-level depth override, each resolver returns after
\* finitely many recursive calls: the budget of the top-level call is at
\* least 1, it decreases by one per nesting level and the recursion stops
\* when it reaches 1, so no resolution exhausts the stack.
C11_ResolutionTerminates ==
    mode = "generate"
    => /\ err # "stackOverflow"
       /\ \A c \in calls : c.budget >= 1

\* a non-repeated field of effective category DEFAULT, processed with a
\* budget above 1, that is a message with nesting not permitted or is not a
\* message at all, in a capability its annotation does not disable
UnresolvableCase(c) ==
    /\ ~c.decl.repeated
    /\ c.field.opts.valueType = "DEFAULT"
    /\ getValueType(c.field) = "DEFAULT"
    /\ c.budget > 1
    /\ c.err = "none"
    /\ \/ c.field.type # "TYPE_MESSAGE"
       \/ ~allowNested(c.msg, c.field.opts)
    /\ c.kind # "filtering" => ~Disabled(c.kind, c.field.opts)

\* C12 as stated: for such a field filtering records exactly one entry, with
\* deny list <<ALL>>; sorting and field selection each record exactly the
\* field's own path and no path below it.
C12_UnresolvableRecorded ==
    \A c \in FieldCalls :
        UnresolvableCase(c)
        => c.out = IF c.kind = "filtering"
                       THEN <<DenyAll(<<c.field.name>>)>>
                   ELSE <<(<<c.field.name>>)>>

\* C12 amended: for such a field filtering records exactly one entry, with
\* deny list <<ALL>>; sorting records nothing; field selection records the
\* field's own path, preceded, when the field is a message, by the
\* re-parented paths of that message resolved with the budget less one.
C12_UnresolvableRecordedPerKind ==
    \A c \in FieldCalls :
        UnresolvableCase(c)
        => c.out = IF c.kind = "filtering"
                       THEN <<DenyAll(<<c.field.name>>)>>
                   ELSE IF c.kind = "sorting" THEN <<>>
                   ELSE IF c.field.type = "TYPE_MESSAGE"
                       THEN NestedPaths(c) \o <<(<<c.field.name>>)>>
                   ELSE <<(<<c.field.name>>)>>

C12_Witness ==
    /\ mode = "generate" /\ pc = "done" /\ maxNesting = 2
    /\ \E c \in FieldCalls :
          /\ UnresolvableCase(c) /\ c.msg = "M1" /\ c.kind = "fieldSelection"
          /\ c.field.type = "TYPE_MESSAGE" /\ c.field.typeName = "M2"
          /\ c.out = << <<"f", "code">>, <<"f">> >>
    /\ tables.filtering["/pkg.Svc/List"] =
          <<Entry(<<"id">>, "NUMBER", <<>>), DenyAll(<<"f">>)>>
    /\ tables.sorting["/pkg.Svc/List"] = << <<"id">> >>
    /\ tables.fieldSelection["/pkg.Svc/List"] =
          << <<"id">>, <<"f", "code">>, <<"f">> >>

\* a field of a concrete category, by its value type override or, when it
\* is not repeated, by the classifier, processed with a budget of 1 or more
\* in a capability its annotation does not disable
ConcreteCase(c) ==
    /\ \/ c.field.opts.valueType # "DEFAULT"
       \/ ~c.field.repeated /\ getValueType(c.field) # "DEFAULT"
    /\ c.budget >= 1
    /\ c.err = "none"
    /\ c.kind # "filtering" => ~Disabled(c.kind, c.field.opts)

\* C13: a field of a concrete category (STRING, NUMBER or BOOL, by override
\* or by the classifier, every well-known wrapper included) yields exactly
\* one entry in each capability's list in which it is not disabled, at every
\* budget and whatever the nesting permission: it is never left out and
\* never descended into; in filtering the path of a JSON value field is the
\* field name followed by ".*".
C13_ConcreteOneEntry ==
    \A c \in FieldCalls :
        ConcreteCase(c)
        => /\ Len(c.out) = 1
           /\ IF c.kind = "filtering"
                  THEN c.out[1].fieldName = FilteringPath(c.field)
              ELSE c.out[1] \in OwnPaths(c)

\* the calls made for the synthetic entries that name no target message
EntryCalls == {c \in calls : c.origin = "entry" /\ c.err = "none"}

\* the annotation of the synthetic entry of call c as the message declares it
DeclaredValue(c) ==
    LET v == declared[c.msg].opts.validate
    IN  v[CHOOSE i \in 1..Len(v) : v[i].name = c.decl.name].value

\* what the declared annotation says about the capability of call c:
\* "nil" (nothing), "enabled" or "disabled"
DeclaredToggle(c) ==
    IF c.kind = "sorting" THEN DeclaredValue(c).sorting
    ELSE DeclaredValue(c).fieldSelection

\* C14 as stated: a synthetic entry that names no target message yields
\* exactly one entry under its own name: in filtering always, in sorting and
\* field selection unless its annotation explicitly disables the capability;
\* an annotation that says nothing about the capability does not disable it.
C14_SyntheticOwnEntry ==
    \A c \in EntryCalls :
        IF c.kind = "filtering"
            THEN Len(c.out) = 1 /\ c.out[1].fieldName = <<c.decl.name>>
        ELSE c.out = IF DeclaredToggle(c) = "disabled" THEN <<>>
                     ELSE <<(<<c.decl.name>>)>>

\* C14 amended: such an entry yields exactly one entry under its own name in
\* filtering always, and in sorting and field selection only when its
\* annotation carries the capability's settings and they do not disable it;
\* an annotation that says nothing about the capability yields no entry.
C14_SyntheticOwnEntryWhenEnabled ==
    \A c \in EntryCalls :
        IF c.kind = "filtering"
            THEN Len(c.out) = 1 /\ c.out[1].fieldName = <<c.decl.name>>
        ELSE c.out = IF DeclaredToggle(c) = "enabled"
                         THEN <<(<<c.decl.name>>)>>
                     ELSE <<>>

C14_Witness ==
    /\ mode = "generate" /\ pc = "done"
    /\ "/pkg.Svc/List" \in DOMAIN tables.filtering
    /\ Len(tables.filtering["/pkg.Svc/List"]) = 3
    /\ tables.filtering["/pkg.Svc/List"][1].fieldName = <<"s">>
    /\ tables.sorting["/pkg.Svc/List"] = << <<"s">>, <<"id">>, <<"f">> >>
    /\ tables.fieldSelection["/pkg.Svc/List"] = << <<"id">>, <<"f">> >>
    /\ \E c \in EntryCalls :
          /\ c.kind = "fieldSelection" /\ c.decl.name = "s"
          /\ DeclaredToggle(c) = "nil"
          /\ DeclaredValue(c).sorting = "enabled"
          /\ c.out = <<>>

\* C15: resolution only reads the descriptors: after any sequence of
\* filtering, sorting and field selection resolutions every message option
\* and every field or synthetic annotation (sorting and field selection
\* flags, nesting flag, allow and deny lists, value type) has the value it
\* had before the first resolution.
C15_SchemaOnlyRead == schema = declared

\* the paths of a resolved list, in its order
PathsOf(kind, list) ==
    [i \in 1..Len(list) |->
        IF kind = "filtering" THEN list[i].fieldName ELSE list[i]]

NoDuplicates(s) == \A i, j \in 1..Len(s) : s[i] = s[j] => i = j

\* C16: in the list each resolver returns for an endpoint every field path
\* occurs at most once, also when a synthetic entry has the name of a field
\* of the message and when a message is reached through two fields.
C16_PathsUnique ==
    \A kind \in Kinds :
        \A e \in DOMAIN tables[kind] :
            NoDuplicates(PathsOf(kind, tables[kind][e]))

\* exactly one of the two lists is given
OneList(o) == (Len(o.allow) > 0) # (Len(o.deny) > 0)

\* getDenyOperations has run on a bytes field with an allow or a deny list
PermUncategorizable ==
    /\ mode = "perm" /\ permOut.n >= 1
    /\ permIn.fieldType = "TYPE_BYTES" /\ OneList(permIn)

\* a non-repeated field of the top-level message, of a non-message type the
\* classifier maps to DEFAULT, without override and with one list
Uncategorizable(c) ==
    /\ c.origin = "field" /\ ~c.decl.repeated
    /\ c.budget = getNestDepth(c.msg)
    /\ c.field.type # "TYPE_MESSAGE"
    /\ getValueType(c.field) = "DEFAULT"
    /\ c.field.opts.valueType = "DEFAULT"
    /\ OneList(c.field.opts)

\* C17 as stated: filtering demanded on a type that has no category is an
\* error: for such a field resolution stops with the unsupported field type
\* error and records no entry, in getDenyOperations and in
\* getFilteringDataAux alike.
C17_UnsupportedFieldType ==
    /\ PermUncategorizable
       => permOut.err = "unsupportedFieldType" /\ permOut.res = <<>>
    /\ \A c \in FilteringCalls :
          Uncategorizable(c)
          => c.err = "unsupportedFieldType" /\ c.out = <<>>

\* C17 amended: getDenyOperations stops with the unsupported field type
\* error and returns no operator; getFilteringDataAux raises no error for
\* such a field and ignores its list: it leaves the field out at budget 1
\* and records it with deny list <<ALL>> otherwise.
C17_UnsupportedFieldTypeDenyOnly ==
    /\ PermUncategorizable
       => permOut.err = "unsupportedFieldType" /\ permOut.res = <<>>
    /\ \A c \in FilteringCalls :
          Uncategorizable(c)
          => /\ c.err = "none"
             /\ c.out = IF c.budget = 1 THEN <<>>
                        ELSE <<DenyAll(<<c.field.name>>)>>

C17_Witness ==
    /\ mode = "generate" /\ pc = "genSorting"
    /\ \E c \in FilteringCalls :
          /\ Uncategorizable(c) /\ c.field.type = "TYPE_BYTES"
          /\ c.field.opts.deny = <<"ALL">> /\ c.budget = 2
          /\ c.out = <<DenyAll(<<"f">>)>>
    /\ tables.filtering["/pkg.Svc/List"] =
          <<Entry(<<"id">>, "NUMBER", <<>>), DenyAll(<<"f">>)>>

====
